---------------------------- MODULE Spec2Model ----------------------------
(***************************************************************************)
(* A model of src/app.py, the beach / travel safety analyzer.              *)
(*                                                                         *)
(* Numbers.  The program computes with Python floats that carry at most    *)
(* two decimals in every case studied here; the model uses fixed point     *)
(* integers in hundredths, Fx(8) = 800 standing for 8.0.                   *)
(*                                                                         *)
(* Text.  Text on which the program does substring tests or lower() is a   *)
(* sequence of one-character strings; text that is only displayed is a     *)
(* TLA+ string.                                                            *)
(*                                                                         *)
(* Two specifications:                                                     *)
(*   SpecPure  one call of one of the pure functions, Init drawing the     *)
(*             function and its arguments, one action per function;        *)
(*   Spec      script runs of main / display_location_report, one action   *)
(*             per provider call together with the rendering that          *)
(*             follows it, and one action per step of the streamed guide.  *)
(***************************************************************************)
EXTENDS Integers, Sequences, FiniteSets, TLC

VARIABLES fn, args, ret,
          pc, secrets, location, button, coords, session_location, weather,
          safety_rating, page, calls, guide_read, full_response, container

pureVars == <<fn, args, ret>>
flowVars == <<pc, secrets, location, button, coords, session_location,
              weather, safety_rating, page, calls, guide_read, full_response,
              container>>
vars == <<fn, args, ret, pc, secrets, location, button, coords,
          session_location, weather, safety_rating, page, calls, guide_read,
          full_response, container>>

----------------------------------------------------------------------------
(* Bounds of the model                                                     *)

\* input values are taken within Spread hundredths of every threshold
Spread == 1
\* longest tide response examined
MaxEvents == 3
\* longest hazard list examined
MaxHazards == 2
\* most chunks a guide stream delivers
MaxFragments == 3

----------------------------------------------------------------------------
(* Text                                                                    *)

S_Thunderstorm == <<"T","h","u","n","d","e","r","s","t","o","r","m">>
S_Rain == <<"R","a","i","n">>
S_Fog == <<"F","o","g">>
S_rain == <<"r","a","i","n">>
S_tsunami == <<"t","s","u","n","a","m","i">>
S_cyclone == <<"c","y","c","l","o","n","e">>
S_beach == <<"b","e","a","c","h">>
S_coast == <<"c","o","a","s","t">>
S_shore == <<"s","h","o","r","e">>
S_seaside == <<"s","e","a","s","i","d","e">>
S_ClearSky == <<"C","l","e","a","r"," ","s","k","y">>
S_MainlyClear == <<"M","a","i","n","l","y"," ","c","l","e","a","r">>
S_PartlyCloudy == <<"P","a","r","t","l","y"," ","c","l","o","u","d","y">>
S_Overcast == <<"O","v","e","r","c","a","s","t">>
S_LightDrizzle == <<"L","i","g","h","t"," ","d","r","i","z","z","l","e">>
S_LightRain == <<"L","i","g","h","t"," ","r","a","i","n">>
S_RainShowers == <<"R","a","i","n"," ","s","h","o","w","e","r","s">>
S_Unknown == <<"U","n","k","n","o","w","n"," ","w","e","a","t","h","e","r"," ","c","o","n","d","i","t","i","o","n","s">>
S_Sunny == <<"S","u","n","n","y">>
S_Clear == <<"C","l","e","a","r">>
S_HeavyRain == <<"H","e","a","v","y"," ","R","a","i","n">>
S_RainThunder == <<"R","a","i","n"," ","a","n","d"," ","T","h","u","n","d","e","r","s","t","o","r","m">>
S_FogRain == <<"F","o","g"," ","a","n","d"," ","R","a","i","n">>
S_RAIN == <<"R","A","I","N">>
S_TsunamiWarning == <<"T","s","u","n","a","m","i"," ","w","a","r","n","i","n","g">>
S_CycloneAlert == <<"C","Y","C","L","O","N","E"," ","a","l","e","r","t">>
S_RipCurrents == <<"R","i","p"," ","c","u","r","r","e","n","t","s">>
S_PuriBeach == <<"P","u","r","i"," ","B","e","a","c","h">>
S_Delhi == <<"D","e","l","h","i">>
S_Atlantis == <<"A","t","l","a","n","t","i","s">>

UpperAlpha == <<"A","B","C","D","E","F","G","H","I","J","K","L","M","N","O","P","Q","R","S","T","U","V","W","X","Y","Z">>
LowerAlpha == <<"a","b","c","d","e","f","g","h","i","j","k","l","m","n","o","p","q","r","s","t","u","v","w","x","y","z">>

\* str.lower() on one character
LowerChar(c) ==
    IF \E i \in 1..Len(UpperAlpha) : UpperAlpha[i] = c
    THEN LowerAlpha[CHOOSE i \in 1..Len(UpperAlpha) : UpperAlpha[i] = c]
    ELSE c

\* str.lower()
Lower(s) == [i \in 1..Len(s) |-> LowerChar(s[i])]

\* Python's  sub in s  on strings: a case-sensitive substring test
Contains(sub, s) ==
    \E i \in 0..(Len(s) - Len(sub)) : SubSeq(s, i + 1, i + Len(sub)) = sub

\* any(p(h) for h in hazards)
AnyContainsLower(sub, hazards) ==
    \E i \in 1..Len(hazards) : Contains(sub, Lower(hazards[i]))

----------------------------------------------------------------------------
(* Numbers                                                                 *)

\* the fixed-point image of the literal n
Fx(n) == n * 100

Max(a, b) == IF a >= b THEN a ELSE b
Min(a, b) == IF a <= b THEN a ELSE b

\* round(x, 1): to the nearest tenth, a tie going to the even tenth
Round1(x) ==
    LET q == x \div 10
        r == x % 10
    IN  IF r < 5 THEN q * 10
        ELSE IF r > 5 THEN (q + 1) * 10
        ELSE IF q % 2 = 0 THEN q * 10 ELSE (q + 1) * 10

\* sequences over S of length at most n
SeqUpTo(S, n) == UNION {[1..k -> S] : k \in 0..n}

----------------------------------------------------------------------------
(* Utility functions                                                       *)

uv_risk_level_strict(uv_index) ==
    IF uv_index < Fx(2) THEN "Low"
    ELSE IF uv_index < Fx(5) THEN "Moderate"
    ELSE IF uv_index < Fx(7) THEN "High"
    ELSE IF uv_index < Fx(10) THEN "Very High"
    ELSE "Extreme"

uv_risk_level(uv_index) ==
    IF uv_index <= Fx(2) THEN "Low"
    ELSE IF uv_index <= Fx(5) THEN "Moderate"
    ELSE IF uv_index <= Fx(7) THEN "High"
    ELSE IF uv_index <= Fx(10) THEN "Very High"
    ELSE "Extreme"

WeatherCodes == {0, 1, 2, 3, 45, 51, 61, 80, 95}

translate_weather_code(code) ==
    CASE code = 0 -> S_ClearSky
      [] code = 1 -> S_MainlyClear
      [] code = 2 -> S_PartlyCloudy
      [] code = 3 -> S_Overcast
      [] code = 45 -> S_Fog
      [] code = 51 -> S_LightDrizzle
      [] code = 61 -> S_LightRain
      [] code = 80 -> S_RainShowers
      [] code = 95 -> S_Thunderstorm
      [] OTHER -> S_Unknown

\* get_safety_rating returning the rounded rating without the final clamp
get_safety_rating_unclamped(w) ==
    LET r0 == Fx(8)
        r1 == IF Contains(S_Thunderstorm, w.conditions) THEN r0 - Fx(4)
              ELSE IF Contains(S_Rain, w.conditions) THEN r0 - Fx(2)
              ELSE IF Contains(S_Fog, w.conditions) THEN r0 - Fx(1)
              ELSE r0
        r2 == IF w.temp > Fx(35) THEN r1 - Fx(2)
              ELSE IF w.temp < Fx(10) THEN r1 - Fx(1)
              ELSE r1
        r3 == IF w.wind > Fx(30) THEN r2 - Fx(3)
              ELSE IF w.wind > Fx(20) THEN r2 - Fx(1)
              ELSE r2
        r4 == IF w.uv_index > Fx(8) THEN r3 - Fx(1) ELSE r3
    IN  Round1(r4)

\* get_safety_rating testing "Rain" before "Thunderstorm"
get_safety_rating_rain_first(w) ==
    LET r0 == Fx(8)
        r1 == IF Contains(S_Rain, w.conditions) THEN r0 - Fx(2)
              ELSE IF Contains(S_Thunderstorm, w.conditions) THEN r0 - Fx(4)
              ELSE IF Contains(S_Fog, w.conditions) THEN r0 - Fx(1)
              ELSE r0
        r2 == IF w.temp > Fx(35) THEN r1 - Fx(2)
              ELSE IF w.temp < Fx(10) THEN r1 - Fx(1)
              ELSE r1
        r3 == IF w.wind > Fx(30) THEN r2 - Fx(3)
              ELSE IF w.wind > Fx(20) THEN r2 - Fx(1)
              ELSE r2
        r4 == IF w.uv_index > Fx(8) THEN r3 - Fx(1) ELSE r3
    IN  Max(0, Min(Fx(10), Round1(r4)))

get_safety_rating(w) ==
    LET r0 == Fx(8)
        r1 == IF Contains(S_Thunderstorm, w.conditions) THEN r0 - Fx(4)
              ELSE IF Contains(S_Rain, w.conditions) THEN r0 - Fx(2)
              ELSE IF Contains(S_Fog, w.conditions) THEN r0 - Fx(1)
              ELSE r0
        r2 == IF w.temp > Fx(35) THEN r1 - Fx(2)
              ELSE IF w.temp < Fx(10) THEN r1 - Fx(1)
              ELSE r1
        r3 == IF w.wind > Fx(30) THEN r2 - Fx(3)
              ELSE IF w.wind > Fx(20) THEN r2 - Fx(1)
              ELSE r2
        r4 == IF w.uv_index > Fx(8) THEN r3 - Fx(1) ELSE r3
    IN  Max(0, Min(Fx(10), Round1(r4)))

BaseItems ==
    <<"SPF 50+ Sunscreen", "Swimwear", "Beach towel",
      "UV-protection sunglasses", "Reusable water bottle">>

\* generate_beach_packing_list testing the wind before the temperature
generate_beach_packing_list_wind_first(w, uv_index) ==
    LET i1 == IF uv_index > Fx(8)
              THEN Append(BaseItems, "UV-protective hat/clothing")
              ELSE BaseItems
        i2 == IF w.wind > Fx(15) THEN Append(i1, "Light windbreaker") ELSE i1
        i3 == IF w.temp > Fx(30)
              THEN Append(i2, "Portable fan/misting bottle") ELSE i2
        i4 == IF Contains(S_rain, Lower(w.conditions))
              THEN Append(i3, "Waterproof bag/cover") ELSE i3
    IN  i4

generate_beach_packing_list(w, uv_index) ==
    LET i1 == IF uv_index > Fx(8)
              THEN Append(BaseItems, "UV-protective hat/clothing")
              ELSE BaseItems
        i2 == IF w.temp > Fx(30)
              THEN Append(i1, "Portable fan/misting bottle") ELSE i1
        i3 == IF w.wind > Fx(15) THEN Append(i2, "Light windbreaker") ELSE i2
        i4 == IF Contains(S_rain, Lower(w.conditions))
              THEN Append(i3, "Waterproof bag/cover") ELSE i3
    IN  i4

\* get_beach_safety_score with the hazard tests case-sensitive
get_beach_safety_score_case_sensitive(uv_index, hazards, has_lifeguard) ==
    LET s0 == 8
        s1 == IF uv_index > Fx(8) THEN s0 - 2
              ELSE IF uv_index > Fx(5) THEN s0 - 1
              ELSE s0
        s2 == IF \E i \in 1..Len(hazards) : Contains(S_tsunami, hazards[i])
              THEN s1 - 3
              ELSE IF \E i \in 1..Len(hazards) : Contains(S_cyclone, hazards[i])
              THEN s1 - 2
              ELSE s1
        s3 == IF has_lifeguard THEN s2 + 1 ELSE s2
    IN  Max(1, Min(10, s3))

get_beach_safety_score(uv_index, hazards, has_lifeguard) ==
    LET s0 == 8
        s1 == IF uv_index > Fx(8) THEN s0 - 2
              ELSE IF uv_index > Fx(5) THEN s0 - 1
              ELSE s0
        s2 == IF AnyContainsLower(S_tsunami, hazards) THEN s1 - 3
              ELSE IF AnyContainsLower(S_cyclone, hazards) THEN s1 - 2
              ELSE s1
        s3 == IF has_lifeguard THEN s2 + 1 ELSE s2
    IN  Max(1, Min(10, s3))

----------------------------------------------------------------------------
(* Tide extremes                                                           *)

\* Python's None
None == [none |-> TRUE]

\* The "time" string of a tide event is [instant, form]: the instant it
\* names and how it is written: "Z" (2024-05-01T06:00:00Z), "offset"
\* (2024-05-01T06:00:00+00:00) or "naive" (no zone designator).
\* tide["time"].replace('Z', '+00:00')
ReplaceZ(s) == IF s.form = "Z" THEN [s EXCEPT !.form = "offset"] ELSE s

\* datetime.fromisoformat on the replaced string: an aware datetime for an
\* offset, a naive one otherwise
fromisoformat(s) == [instant |-> s.instant, aware |-> s.form = "offset"]

\* tide.get("height", "N/A")
GetHeight(tide) == IF "height" \in DOMAIN tide THEN tide.height ELSE "N/A"

RECURSIVE TideLoop_latest(_, _, _, _, _)
\* the selection loop keeping the later of two candidates
TideLoop_latest(data, i, now_utc, next_high, next_low) ==
    IF i > Len(data) THEN [next_high |-> next_high, next_low |-> next_low]
    ELSE
      LET tide == data[i]
          tide_time == fromisoformat(ReplaceZ(tide.time))
          picked == [time |-> tide_time.instant, height |-> GetHeight(tide)]
      IN  IF ~tide_time.aware
          THEN [error |-> "can't compare offset-naive and offset-aware datetimes"]
          ELSE IF tide_time.instant < now_utc
          THEN TideLoop_latest(data, i + 1, now_utc, next_high, next_low)
          ELSE IF tide.type = "high"
          THEN IF next_high = None \/ tide_time.instant > next_high.time
               THEN TideLoop_latest(data, i + 1, now_utc, picked, next_low)
               ELSE TideLoop_latest(data, i + 1, now_utc, next_high, next_low)
          ELSE IF tide.type = "low"
          THEN IF next_low = None \/ tide_time.instant > next_low.time
               THEN TideLoop_latest(data, i + 1, now_utc, next_high, picked)
               ELSE TideLoop_latest(data, i + 1, now_utc, next_high, next_low)
          ELSE TideLoop_latest(data, i + 1, now_utc, next_high, next_low)

RECURSIVE TideLoop(_, _, _, _, _)
\* for tide in data["data"]: ... ; return {"next_high": ..., "next_low": ...}
\* (an exception raised in the loop becomes the function's error value)
TideLoop(data, i, now_utc, next_high, next_low) ==
    IF i > Len(data) THEN [next_high |-> next_high, next_low |-> next_low]
    ELSE
      LET tide == data[i]
          tide_time == fromisoformat(ReplaceZ(tide.time))
          picked == [time |-> tide_time.instant, height |-> GetHeight(tide)]
      IN  IF ~tide_time.aware
          THEN [error |-> "can't compare offset-naive and offset-aware datetimes"]
          ELSE IF tide_time.instant < now_utc
          THEN TideLoop(data, i + 1, now_utc, next_high, next_low)
          ELSE IF tide.type = "high"
          THEN IF next_high = None \/ tide_time.instant < next_high.time
               THEN TideLoop(data, i + 1, now_utc, picked, next_low)
               ELSE TideLoop(data, i + 1, now_utc, next_high, next_low)
          ELSE IF tide.type = "low"
          THEN IF next_low = None \/ tide_time.instant < next_low.time
               THEN TideLoop(data, i + 1, now_utc, next_high, picked)
               ELSE TideLoop(data, i + 1, now_utc, next_high, next_low)
          ELSE TideLoop(data, i + 1, now_utc, next_high, next_low)

\* get_tide_data: has_key is "STORMGLASS_API_KEY" in st.secrets, response
\* the outcome of the HTTP request ([status |-> "exception"] for a transport
\* error, a bad status or an unparsable body; [status |-> "ok", json |-> j]
\* otherwise, j holding a "data" list or not), now_utc the clock read at
\* line 257
get_tide_data(has_key, response, now_utc) ==
    IF ~has_key THEN [error |-> "No Storm Glass API key configured"]
    ELSE IF response.status = "exception" THEN [error |-> "request failed"]
    ELSE IF "data" \notin DOMAIN response.json \/ response.json.data = <<>>
    THEN [error |-> "No tide data available"]
    ELSE TideLoop(response.json.data, 1, now_utc, None, None)

----------------------------------------------------------------------------
(* Inputs of the pure calls                                                *)

\* the values within Spread hundredths of the thresholds T
Near(T) == {Fx(t) + d : t \in T, d \in (0 - Spread)..Spread}

CondTexts ==
    {translate_weather_code(c) : c \in WeatherCodes \cup {999}}
    \cup {S_Sunny, S_Clear, S_HeavyRain, S_RainThunder, S_FogRain, S_RAIN}

UVVals == Near({2, 5, 7, 8, 10}) \cup {Fx(3), Fx(9), Fx(11), 650}

RatingWeathers ==
    [conditions : CondTexts,
     temp : Near({10, 35}) \cup {Fx(20), Fx(28)},
     wind : Near({20, 30}) \cup {Fx(5), Fx(12)},
     uv_index : Near({8}) \cup {Fx(3), 650}]

PackingWeathers ==
    [conditions : CondTexts,
     temp : Near({30}) \cup {Fx(20), Fx(31)},
     wind : Near({15}) \cup {Fx(5), Fx(20)},
     uv_index : {Fx(3)}]

HazardTexts == {S_TsunamiWarning, S_CycloneAlert, S_RipCurrents, S_cyclone}

TideInstants == 0..3

TideEvents ==
    [type : {"high", "low"}, time : [instant : TideInstants, form : {"Z"}],
     height : {"1.2"}]
    \cup [type : {"high", "low"},
          time : [instant : {1, 2}, form : {"offset"}]]
    \cup {[type |-> "high", time |-> [instant |-> 2, form |-> "naive"],
           height |-> "0.4"]}

TideResponses ==
    {[status |-> "exception"], [status |-> "ok", json |-> [meta |-> "m"]]}
    \cup {[status |-> "ok", json |-> [data |-> d]] :
            d \in SeqUpTo(TideEvents, MaxEvents)}

TideArgs ==
    [has_key : {TRUE}, response : TideResponses, now_utc : {1, 2}]
    \cup [has_key : {FALSE}, response : {[status |-> "exception"]},
          now_utc : {1}]

----------------------------------------------------------------------------
(* SpecPure: one call of a pure function                                   *)

FlowOff ==
    /\ pc = "off"
    /\ secrets = {}
    /\ location = <<>>
    /\ button = FALSE
    /\ coords = None
    /\ session_location = None
    /\ weather = None
    /\ safety_rating = None
    /\ page = <<>>
    /\ calls = <<>>
    /\ guide_read = <<>>
    /\ full_response = <<>>
    /\ container = None

PureInit ==
    /\ \/ fn = "uv_risk_level" /\ args \in [uv_index : UVVals]
       \/ fn = "translate_weather_code"
            /\ args \in [code : WeatherCodes \cup {4, 999}]
       \/ fn = "get_safety_rating" /\ args \in [weather : RatingWeathers]
       \/ fn = "generate_beach_packing_list"
            /\ args \in [weather : PackingWeathers,
                         uv_index : Near({8}) \cup {Fx(3), Fx(9)}]
       \/ fn = "get_beach_safety_score"
            /\ args \in [uv_index : UVVals,
                         hazards : SeqUpTo(HazardTexts, MaxHazards),
                         has_lifeguard : BOOLEAN]
       \/ fn = "get_tide_data" /\ args \in TideArgs
    /\ ret = [done |-> FALSE]
    /\ FlowOff

CallUvRiskLevel ==
    /\ fn = "uv_risk_level" /\ ~ret.done
    /\ ret' = [done |-> TRUE, val |-> uv_risk_level(args.uv_index)]
    /\ UNCHANGED <<fn, args>>
    /\ UNCHANGED flowVars

CallTranslateWeatherCode ==
    /\ fn = "translate_weather_code" /\ ~ret.done
    /\ ret' = [done |-> TRUE, val |-> translate_weather_code(args.code)]
    /\ UNCHANGED <<fn, args>>
    /\ UNCHANGED flowVars

CallGetSafetyRating ==
    /\ fn = "get_safety_rating" /\ ~ret.done
    /\ ret' = [done |-> TRUE, val |-> get_safety_rating(args.weather)]
    /\ UNCHANGED <<fn, args>>
    /\ UNCHANGED flowVars

CallGenerateBeachPackingList ==
    /\ fn = "generate_beach_packing_list" /\ ~ret.done
    /\ ret' = [done |-> TRUE,
               val |-> generate_beach_packing_list(args.weather,
                                                   args.uv_index)]
    /\ UNCHANGED <<fn, args>>
    /\ UNCHANGED flowVars

CallGetBeachSafetyScore ==
    /\ fn = "get_beach_safety_score" /\ ~ret.done
    /\ ret' = [done |-> TRUE,
               val |-> get_beach_safety_score(args.uv_index, args.hazards,
                                              args.has_lifeguard)]
    /\ UNCHANGED <<fn, args>>
    /\ UNCHANGED flowVars

CallGetTideData ==
    /\ fn = "get_tide_data" /\ ~ret.done
    /\ ret' = [done |-> TRUE,
               val |-> get_tide_data(args.has_key, args.response,
                                     args.now_utc)]
    /\ UNCHANGED <<fn, args>>
    /\ UNCHANGED flowVars

PureNext ==
    \/ CallUvRiskLevel
    \/ CallTranslateWeatherCode
    \/ CallGetSafetyRating
    \/ CallGenerateBeachPackingList
    \/ CallGetBeachSafetyScore
    \/ CallGetTideData

SpecPure == PureInit /\ [][PureNext]_vars

----------------------------------------------------------------------------
(* Properties of the pure functions, checked under SpecPure                *)

Returned(f) == fn = f /\ ret.done

\* C1: for every weather input, the value get_safety_rating returns lies in
\* the closed interval [0, 10] and has exactly one decimal place (in
\* hundredths: a multiple of 10 between 0 and 1000).
C1_RatingInRange ==
    Returned("get_safety_rating") =>
        /\ ret.val >= 0
        /\ ret.val <= Fx(10)
        /\ ret.val % 10 = 0

\* a call whose deductions sum to 10, so that the lower clamp decides
C1_Witness ==
    /\ Returned("get_safety_rating")
    /\ args.weather.conditions = S_RainThunder
    /\ args.weather.temp > Fx(35)
    /\ args.weather.wind > Fx(30)
    /\ args.weather.uv_index > Fx(8)
    /\ ret.val = 0

ConditionDeduction(c) ==
    CASE Contains(S_Thunderstorm, c) -> 4
      [] ~Contains(S_Thunderstorm, c) /\ Contains(S_Rain, c) -> 2
      [] ~Contains(S_Thunderstorm, c) /\ ~Contains(S_Rain, c)
           /\ Contains(S_Fog, c) -> 1
      [] OTHER -> 0

TemperatureDeduction(t) ==
    CASE t > Fx(35) -> 2 [] t < Fx(10) -> 1 [] OTHER -> 0

WindDeduction(w) ==
    CASE w > Fx(30) -> 3 [] w <= Fx(30) /\ w > Fx(20) -> 1 [] OTHER -> 0

UVDeduction(u) == IF u > Fx(8) THEN 1 ELSE 0

ExampleWeather(c) ==
    [conditions |-> c, temp |-> Fx(20), wind |-> Fx(5), uv_index |-> Fx(3)]

\* C2: get_safety_rating returns 8.0 minus the sum of the four category
\* deductions (condition: first match of Thunderstorm 4, Rain 2, Fog 1,
\* case-sensitive; temperature: > 35 is 2, else < 10 is 1; wind: > 30 is 3,
\* else > 20 is 1; UV: > 8 is 1), clamped to [0, 10]; Thunderstorm at 20
\* degrees, wind 5, UV 3 gives 4.0 and Clear with the same values gives 8.0.
C2_RatingIsSumOfDeductions ==
    Returned("get_safety_rating") =>
        LET w == args.weather
            total == ConditionDeduction(w.conditions)
                       + TemperatureDeduction(w.temp)
                       + WindDeduction(w.wind) + UVDeduction(w.uv_index)
        IN  /\ ret.val = Max(0, Min(Fx(10), Fx(8) - Fx(total)))
            /\ w = ExampleWeather(S_Thunderstorm) => ret.val = Fx(4)
            /\ w = ExampleWeather(S_Clear) => ret.val = Fx(8)

\* a text holding both "Rain" and "Thunderstorm", Rain first: only the
\* Thunderstorm deduction applies
C2_Witness ==
    /\ Returned("get_safety_rating")
    /\ args.weather = ExampleWeather(S_RainThunder)
    /\ ret.val = Fx(4)

\* C4: get_beach_safety_score returns 8, minus 2 if UV > 8 else minus 1 if
\* UV > 5, minus 3 if a hazard contains "tsunami" else minus 2 if one
\* contains "cyclone" (both case-insensitive), plus 1 with a lifeguard,
\* clamped to [1, 10]; UV 9 with "Tsunami warning" and no lifeguard gives 3,
\* UV 2 with no hazard and a lifeguard gives 9.
C4_BeachScore ==
    Returned("get_beach_safety_score") =>
        LET hz == {Lower(args.hazards[i]) : i \in 1..Len(args.hazards)}
            uvd == IF args.uv_index > Fx(8) THEN 2
                   ELSE IF args.uv_index > Fx(5) THEN 1 ELSE 0
            hzd == IF \E h \in hz : Contains(S_tsunami, h) THEN 3
                   ELSE IF \E h \in hz : Contains(S_cyclone, h) THEN 2 ELSE 0
            lg == IF args.has_lifeguard THEN 1 ELSE 0
        IN  /\ ret.val = Max(1, Min(10, 8 - uvd - hzd + lg))
            /\ (args.uv_index = Fx(9) /\ args.hazards = <<S_TsunamiWarning>>
                  /\ ~args.has_lifeguard) => ret.val = 3
            /\ (args.uv_index = Fx(2) /\ args.hazards = <<>>
                  /\ args.has_lifeguard) => ret.val = 9

\* an upper-case cyclone alert listed before a tsunami warning: the
\* tsunami deduction alone applies
C4_Witness ==
    /\ Returned("get_beach_safety_score")
    /\ args.hazards = <<S_CycloneAlert, S_TsunamiWarning>>
    /\ args.uv_index = Fx(9)
    /\ ~args.has_lifeguard
    /\ ret.val = 3

ConditionalItems(w, uv) ==
    <<[item |-> "UV-protective hat/clothing", applies |-> uv > Fx(8)],
      [item |-> "Portable fan/misting bottle", applies |-> w.temp > Fx(30)],
      [item |-> "Light windbreaker", applies |-> w.wind > Fx(15)],
      [item |-> "Waterproof bag/cover",
       applies |-> Contains(S_rain, Lower(w.conditions))]>>

Applies(e) == e.applies

\* C5: generate_beach_packing_list returns the five base items in their
\* order followed by exactly the conditional items whose condition holds,
\* in the order hat (UV > 8), cooling item (temperature > 30), windbreaker
\* (wind > 15), waterproof cover ("rain" in the lower-cased condition
\* text); its length is between 5 and 9, and 9 for temperature 31, wind 20,
\* UV 9 and "Light rain".
C5_PackingList ==
    Returned("generate_beach_packing_list") =>
        LET chosen == SelectSeq(ConditionalItems(args.weather, args.uv_index),
                                Applies)
        IN  /\ Len(ret.val) = 5 + Len(chosen)
            /\ SubSeq(ret.val, 1, 5) = BaseItems
            /\ \A i \in 1..Len(chosen) : ret.val[5 + i] = chosen[i].item
            /\ Len(ret.val) >= 5 /\ Len(ret.val) <= 9
            /\ (args.weather.temp = Fx(31) /\ args.weather.wind = Fx(20)
                  /\ args.uv_index = Fx(9)
                  /\ args.weather.conditions = S_LightRain)
               => Len(ret.val) = 9

C5_Witness ==
    /\ Returned("generate_beach_packing_list")
    /\ args.weather.temp = Fx(31)
    /\ args.weather.wind = Fx(20)
    /\ args.uv_index = Fx(9)
    /\ args.weather.conditions = S_LightRain
    /\ ret.val = BaseItems \o <<"UV-protective hat/clothing",
                                "Portable fan/misting bottle",
                                "Light windbreaker", "Waterproof bag/cover">>

\* C6: uv_risk_level maps every UV index to exactly one band with inclusive
\* upper bounds: <= 2 Low, <= 5 Moderate, <= 7 High, <= 10 Very High,
\* otherwise Extreme; a value on a threshold falls in the lower band and
\* a value just above it in the next.
C6_UvBands ==
    Returned("uv_risk_level") =>
        LET u == args.uv_index
        IN  /\ (ret.val = "Low") <=> (u <= Fx(2))
            /\ (ret.val = "Moderate") <=> (u > Fx(2) /\ u <= Fx(5))
            /\ (ret.val = "High") <=> (u > Fx(5) /\ u <= Fx(7))
            /\ (ret.val = "Very High") <=> (u > Fx(7) /\ u <= Fx(10))
            /\ (ret.val = "Extreme") <=> (u > Fx(10))

C6_Witness ==
    /\ Returned("uv_risk_level")
    /\ args.uv_index = Fx(10)
    /\ ret.val = "Very High"

\* the instants of the events of one kind that satisfy a time test
KindInstants(data, kind, Test(_)) ==
    {data[i].time.instant : i \in {j \in 1..Len(data) :
        data[j].type = kind /\ Test(data[j].time.instant)}}

MinOf(S) == CHOOSE m \in S : \A x \in S : m <= x

\* sel is None when no instant qualifies, and otherwise an event of the
\* response of that kind at the earliest qualifying instant
SelectsEarliest(sel, data, kind, T) ==
    IF T = {} THEN sel = None
    ELSE /\ sel # None
         /\ sel.time = MinOf(T)
         /\ \E i \in 1..Len(data) :
              /\ data[i].type = kind
              /\ data[i].time.instant = sel.time
              /\ GetHeight(data[i]) = sel.height

\* a call of get_tide_data whose response is a non-empty list of events
\* with well-formed (zone-designated) times
TideSelectionCase ==
    /\ Returned("get_tide_data")
    /\ args.has_key
    /\ args.response.status = "ok"
    /\ "data" \in DOMAIN args.response.json
    /\ args.response.json.data # <<>>
    /\ \A i \in 1..Len(args.response.json.data) :
         args.response.json.data[i].time.form # "naive"

----------------------------------------------------------------------------
(* Providers and what they return                                          *)

Keys == {"OPENAI_API_KEY", "GOOGLE_MAPS_API_KEY", "STORMGLASS_API_KEY"}

\* what the user may type in the text input
Queries == {<<>>, S_PuriBeach, S_Delhi, S_Atlantis}

\* the geocoder's answers: a transport error, no result, or a first result
GeoResponses(q) ==
    {[status |-> "exception"], [status |-> "ok", json |-> [results |-> <<>>]]}
    \cup (IF q = S_PuriBeach
          THEN {[status |-> "ok", json |-> [results |->
                  <<[lat |-> 1981, lng |-> 8583,
                     formatted_address |-> "Puri Beach, Odisha, India"]>>]]}
          ELSE IF q = S_Delhi
          THEN {[status |-> "ok", json |-> [results |->
                  <<[lat |-> 2861, lng |-> 7721,
                     formatted_address |-> "Delhi, India"]>>]],
                [status |-> "ok", json |-> [results |->
                  <<[lat |-> 0, lng |-> 7721,
                     formatted_address |-> "Delhi"]>>]]}
          ELSE {})

\* get_coordinates: the triple it returns (found = FALSE for the three
\* Nones) and what it renders itself
get_coordinates(has_key, response) ==
    IF ~has_key THEN [found |-> FALSE, rendered |-> <<>>]
    ELSE IF response.status = "exception"
    THEN [found |-> FALSE,
          rendered |-> <<[kind |-> "error", text |-> "Geocoding error: ",
                          arg |-> "request failed"]>>]
    ELSE IF "results" \in DOMAIN response.json /\ response.json.results # <<>>
    THEN [found |-> TRUE,
          lat |-> response.json.results[1].lat,
          lng |-> response.json.results[1].lng,
          name |-> response.json.results[1].formatted_address,
          rendered |-> <<>>]
    ELSE [found |-> FALSE, rendered |-> <<>>]

\* the weather provider's body for one observation
Payload(code, t, w, u) ==
    [current |-> [temperature_2m |-> t, relative_humidity_2m |-> 65,
                  wind_speed_10m |-> w, weather_code |-> code,
                  uv_index |-> u],
     daily |-> [uv_index_max |-> <<u + 120>>],
     hourly |-> [temperature_2m |-> <<t - 250, t, t + 300>>]]

FlowPayloads ==
    {Payload(c, t, w, Fx(3)) :
        c \in {0, 80, 95}, t \in {Fx(20), Fx(36)}, w \in {Fx(5), Fx(25)}}
    \cup {Payload(61, Fx(31), Fx(20), Fx(9)), Payload(95, Fx(36), Fx(35), Fx(9))}

WeatherResponses ==
    {[status |-> "exception"],
     [status |-> "ok", status_code |-> 500],
     [status |-> "ok", status_code |-> 200, json |-> [reason |-> "bad"]]}
    \cup {[status |-> "ok", status_code |-> 200, json |-> p] :
            p \in FlowPayloads}

\* max(...) and min(...) of a non-empty list
SeqMax(q) == CHOOSE m \in {q[i] : i \in 1..Len(q)} :
                 \A i \in 1..Len(q) : q[i] <= m
SeqMin(q) == CHOOSE m \in {q[i] : i \in 1..Len(q)} :
                 \A i \in 1..Len(q) : m <= q[i]

\* q[:n]
Take(q, n) == SubSeq(q, 1, Min(n, Len(q)))

FallbackWeather ==
    [temp |-> Fx(28), humidity |-> 65, wind |-> Fx(12), uv_index |-> 650,
     uv_max |-> 820, conditions |-> S_Sunny,
     forecast |-> [max |-> Fx(32), min |-> Fx(26)]]

\* get_weather: any exception inside the try, and any status but 200,
\* falls through to the fallback observation
get_weather(response) ==
    IF response.status = "exception" THEN FallbackWeather
    ELSE IF response.status_code # 200 THEN FallbackWeather
    ELSE IF \/ {"current", "daily", "hourly"} \cap DOMAIN response.json
                 # {"current", "daily", "hourly"}
            \/ response.json.daily.uv_index_max = <<>>
            \/ response.json.hourly.temperature_2m = <<>>
    THEN FallbackWeather
    ELSE LET data == response.json
         IN  [temp |-> data.current.temperature_2m,
              humidity |-> data.current.relative_humidity_2m,
              wind |-> data.current.wind_speed_10m,
              uv_index |-> data.current.uv_index,
              uv_max |-> data.daily.uv_index_max[1],
              conditions |-> translate_weather_code(data.current.weather_code),
              forecast |->
                [max |-> SeqMax(Take(data.hourly.temperature_2m, 24)),
                 min |-> SeqMin(Take(data.hourly.temperature_2m, 24))]]

\* the tide provider's answers in a script run
FlowTideEvents ==
    {[type |-> "high", time |-> [instant |-> 2, form |-> "Z"],
      height |-> "1.2"],
     [type |-> "low", time |-> [instant |-> 3, form |-> "Z"],
      height |-> "0.3"],
     [type |-> "high", time |-> [instant |-> 0, form |-> "Z"],
      height |-> "1.1"]}

FlowTideResponses ==
    {[status |-> "exception"], [status |-> "ok", json |-> [data |-> <<>>]]}
    \cup {[status |-> "ok", json |-> [data |-> d]] :
            d \in SeqUpTo(FlowTideEvents, 2) \ {<<>>}}

\* the hours of the day at which a run may take place
Hours == {9, 10}

Qualities == <<"Excellent", "Good", "Fair", "Poor">>

\* get_water_quality: qualities[(len(location) + datetime.now().hour) % 4]
get_water_quality(loc, hour) == Qualities[((Len(loc) + hour) % 4) + 1]

\* generate_packing_list: outcome is how client.chat.completions.create
\* ends, "exception" or "content"
generate_packing_list(has_key, outcome) ==
    IF has_key
    THEN IF outcome = "exception" THEN "Couldn't generate AI packing list"
         ELSE "AI packing list"
    ELSE "Enable OpenAI API for smart packing suggestions"

\* generate_location_guide: a placeholder string, or the stream object
generate_location_guide(has_key, outcome) ==
    IF ~has_key
    THEN [str |-> "Enable OpenAI API for location guide"]
    ELSE IF outcome = "exception"
    THEN [str |-> "Error generating guide: request failed"]
    ELSE [stream |-> TRUE]

\* delta objects of the chunks of a guide stream: content None (absent),
\* empty, or text
Deltas ==
    {[role |-> "assistant"], [content |-> <<>>], [content |-> <<"a">>],
     [content |-> <<"b", "c">>]}

Chunks == {[choices |-> <<>>]} \cup {[choices |-> <<[delta |-> d]>>] : d \in Deltas}

\* the mark appended to the text while the guide streams
Cursor == "|"

----------------------------------------------------------------------------
(* What a run renders                                                      *)

Subheader(t) == [kind |-> "subheader", text |-> t]
Metric(l, v, d) == [kind |-> "metric", label |-> l, value |-> v, delta |-> d]
Write(t) == [kind |-> "write", text |-> t]
Warning(t) == [kind |-> "warning", text |-> t]
Expander(l, body) == [kind |-> "expander", label |-> l, body |-> body]
CouldNotFind(loc) ==
    [kind |-> "error", text |-> "Could not find coordinates for: ", arg |-> loc]

\* the label of a rating with exclusive lower bounds
SafetyLabel_exclusive(s) ==
    IF s > Fx(8) THEN "Very Safe"
    ELSE IF s > Fx(6) THEN "Safe"
    ELSE IF s > Fx(4) THEN "Caution Advised"
    ELSE "Not Recommended"

\* the delta of the safety metric in display_location_report
LocationLabel(s) ==
    IF s >= Fx(8) THEN "Very Safe"
    ELSE IF s >= Fx(6) THEN "Safe"
    ELSE IF s >= Fx(4) THEN "Caution Advised"
    ELSE "Not Recommended"

\* the delta of the safety metric in display_beach_report
BeachLabel(s) ==
    IF s >= Fx(8) THEN "Very Safe"
    ELSE IF s >= Fx(6) THEN "Safe"
    ELSE IF s >= Fx(4) THEN "Caution Advised"
    ELSE "Not Recommended"

WeatherSection(w) ==
    <<Subheader("Current Weather"),
      Metric("Temperature", [num |-> w.temp, unit |-> "C"], ""),
      Metric("Conditions", [text |-> w.conditions], ""),
      Metric("Wind Speed", [num |-> w.wind, unit |-> " km/h"], ""),
      Metric("Humidity", [num |-> w.humidity, unit |-> "%"], "")>>

ForecastSection(w) ==
    <<Subheader("Today's Forecast"),
      Write([high |-> w.forecast.max, low |-> w.forecast.min])>>

TideSection(tide_data) ==
    <<Subheader("Tide Information")>> \o
    (IF "error" \notin DOMAIN tide_data
     THEN (IF tide_data.next_high # None
           THEN <<Metric("Next High Tide", [time |-> tide_data.next_high.time],
                         [text |-> tide_data.next_high.height, unit |-> "m"])>>
           ELSE <<>>) \o
          (IF tide_data.next_low # None
           THEN <<Metric("Next Low Tide", [time |-> tide_data.next_low.time],
                         [text |-> tide_data.next_low.height, unit |-> "m"])>>
           ELSE <<>>)
     ELSE <<Warning(tide_data.error)>>)

\* everything display_beach_report renders
BeachSections(loc, w, tide_data, hour) ==
    LET rating == get_safety_rating(w)
        water_quality == get_water_quality(loc, hour)
    IN  <<Subheader("Beach Safety Report"), Subheader("Safety to Visit?"),
          Metric("Safety Rating", [num |-> rating, unit |-> "/10"],
                 BeachLabel(rating))>>
        \o WeatherSection(w)
        \o TideSection(tide_data)
        \o <<Subheader("Water Quality"),
             Metric("Swimming Safety", [text |-> water_quality],
                    IF water_quality \in {"Good", "Excellent"}
                    THEN "Safe for swimming" ELSE "Check conditions"),
             Expander("Beach Packing Essentials",
                      generate_beach_packing_list(w, w.uv_index))>>

\* "beach" in location.lower() or any(x in location.lower() for x in [...])
IsBeach(loc) ==
    \/ Contains(S_beach, Lower(loc))
    \/ \E x \in {S_coast, S_shore, S_seaside} : Contains(x, Lower(loc))

\* st.empty() before any markdown, and after markdown(text)
EmptyContainer == [shown |-> FALSE]
Markdown(text) == [shown |-> TRUE, text |-> text]

----------------------------------------------------------------------------
(* Spec: one run of the script from the text input on (lines 458-466).     *)
(* page holds what the run renders after the input, calls the functions    *)
(* it has called, in order.  st.cache_data is not modelled as a store: a   *)
(* provider call returns any value the provider can produce, which covers  *)
(* every value a cache can hold; the one place where the cache decides     *)
(* the value within a run, the second get_weather(lat, lng) of a run, made *)
(* by display_beach_report, returns the observation of the first.          *)

PureOff ==
    /\ fn = "none"
    /\ args = None
    /\ ret = [done |-> FALSE]

Init ==
    /\ pc = "idle"
    /\ secrets \in SUBSET Keys
    /\ location = <<>>
    /\ button = FALSE
    /\ coords = None
    /\ session_location = None
    /\ weather = None
    /\ safety_rating = None
    /\ page = <<>>
    /\ calls = <<>>
    /\ guide_read = <<>>
    /\ full_response = <<>>
    /\ container = None
    /\ PureOff

\* lines 458-466 and 381-385: the text input, the button, and the entry of
\* display_location_report
Main ==
    /\ pc = "idle"
    /\ \E q \in Queries, b \in BOOLEAN :
         /\ location' = q
         /\ button' = b
         /\ IF b \/ q # <<>>
            THEN IF q # <<>>
                 THEN IF q = <<>>
                      THEN /\ page' = Append(page, Warning("Please enter a location"))
                           /\ pc' = "done"
                      ELSE /\ page' = page
                           /\ pc' = "geocode"
                 ELSE /\ page' = Append(page, Warning("Please enter a beach location"))
                      /\ pc' = "done"
            ELSE /\ page' = page
                 /\ pc' = "done"
    /\ UNCHANGED <<secrets, coords, session_location, weather, safety_rating,
                   calls, guide_read, full_response, container>>
    /\ UNCHANGED pureVars

\* lines 387-392 without the return at line 390
GetCoordinates_no_return ==
    /\ pc = "geocode"
    /\ \E response \in GeoResponses(location) :
         LET r == get_coordinates("GOOGLE_MAPS_API_KEY" \in secrets, response)
         IN  /\ calls' = Append(calls, "get_coordinates")
             /\ IF ~r.found \/ r.lat = 0 \/ r.lng = 0
                THEN /\ page' = page \o r.rendered \o <<CouldNotFind(location)>>
                     /\ coords' = coords
                ELSE /\ page' = page \o r.rendered
                     /\ coords' = [lat |-> r.lat, lng |-> r.lng, name |-> r.name]
             /\ session_location' = Lower(location)
             /\ pc' = "weather"
    /\ UNCHANGED <<secrets, location, button, weather, safety_rating,
                   guide_read, full_response, container>>
    /\ UNCHANGED pureVars

\* lines 387-392: geocode, stop with an error when lat or lng is falsy,
\* else remember the location in the session state
GetCoordinates ==
    /\ pc = "geocode"
    /\ \E response \in GeoResponses(location) :
         LET r == get_coordinates("GOOGLE_MAPS_API_KEY" \in secrets, response)
         IN  /\ calls' = Append(calls, "get_coordinates")
             /\ IF ~r.found \/ r.lat = 0 \/ r.lng = 0
                THEN /\ page' = page \o r.rendered \o <<CouldNotFind(location)>>
                     /\ pc' = "done"
                     /\ UNCHANGED <<coords, session_location>>
                ELSE /\ page' = page \o r.rendered
                     /\ coords' = [lat |-> r.lat, lng |-> r.lng, name |-> r.name]
                     /\ session_location' = Lower(location)
                     /\ pc' = "weather"
    /\ UNCHANGED <<secrets, location, button, weather, safety_rating,
                   guide_read, full_response, container>>
    /\ UNCHANGED pureVars

\* lines 395-417: the weather, the rating, and the first three sections
GetWeather ==
    /\ pc = "weather"
    /\ \E response \in WeatherResponses :
         LET w == get_weather(response)
             rating == get_safety_rating(w)
         IN  /\ weather' = w
             /\ safety_rating' = rating
             /\ page' = page \o WeatherSection(w) \o ForecastSection(w)
                          \o <<Subheader("Is It Safe to Visit?"),
                               Metric("Safety Rating",
                                      [num |-> rating, unit |-> "/10"],
                                      LocationLabel(rating))>>
    /\ calls' = calls \o <<"get_weather", "get_safety_rating">>
    /\ pc' = "packing"
    /\ UNCHANGED <<secrets, location, button, coords, session_location,
                   guide_read, full_response, container>>
    /\ UNCHANGED pureVars

\* lines 420-424: the AI packing list, then the choice of the beach report
GeneratePackingList ==
    /\ pc = "packing"
    /\ \E outcome \in {"exception", "content"} :
         page' = Append(page,
                   Expander("What to Carry",
                     generate_packing_list("OPENAI_API_KEY" \in secrets,
                                           outcome)))
    /\ calls' = Append(calls, "generate_packing_list")
    /\ pc' = IF IsBeach(location) THEN "beach" ELSE "guide"
    /\ UNCHANGED <<secrets, location, button, coords, session_location,
                   weather, safety_rating, guide_read, full_response,
                   container>>
    /\ UNCHANGED pureVars

\* line 425, lines 319-379: display_beach_report (the facilities it fetches
\* are not rendered)
DisplayBeachReport ==
    /\ pc = "beach"
    /\ \E response \in FlowTideResponses, hour \in Hours :
         LET tide_data == get_tide_data("STORMGLASS_API_KEY" \in secrets,
                                        response, 1)
         IN  page' = page \o BeachSections(location, weather, tide_data, hour)
    /\ calls' = calls \o <<"get_weather", "get_tide_data",
                           "get_beach_facilities", "get_safety_rating",
                           "get_water_quality", "generate_beach_packing_list">>
    /\ pc' = "guide"
    /\ UNCHANGED <<secrets, location, button, coords, session_location,
                   weather, safety_rating, guide_read, full_response,
                   container>>
    /\ UNCHANGED pureVars

\* lines 428-435: the guide is a placeholder string, written at once, or a
\* stream, for which an empty container is created
GenerateLocationGuide ==
    /\ pc = "guide"
    /\ \E outcome \in {"exception", "stream"} :
         LET guide == generate_location_guide("OPENAI_API_KEY" \in secrets,
                                              outcome)
         IN  IF "str" \in DOMAIN guide
             THEN /\ page' = page \o <<Subheader("Travel Guide"), Write(guide.str)>>
                  /\ pc' = "done"
                  /\ UNCHANGED <<container, full_response>>
             ELSE /\ page' = Append(page, Subheader("Travel Guide"))
                  /\ container' = EmptyContainer
                  /\ full_response' = <<>>
                  /\ pc' = "stream"
    /\ calls' = Append(calls, "generate_location_guide")
    /\ UNCHANGED <<secrets, location, button, coords, session_location,
                   weather, safety_rating, guide_read>>
    /\ UNCHANGED pureVars

\* one turn of the loop of line 437 that shows the new word alone
StreamChunk_overwrite ==
    /\ pc = "stream"
    /\ Len(guide_read) < MaxFragments
    /\ \E chunk \in Chunks :
         /\ guide_read' = Append(guide_read, chunk)
         /\ IF chunk.choices = <<>>
            THEN /\ pc' = "crashed"
                 /\ UNCHANGED <<full_response, container>>
            ELSE /\ pc' = pc
                 /\ IF "content" \in DOMAIN chunk.choices[1].delta
                    THEN LET word == chunk.choices[1].delta.content
                         IN  /\ full_response' = word
                             /\ container' =
                                  Markdown(full_response' \o <<Cursor>>)
                    ELSE UNCHANGED <<full_response, container>>
    /\ UNCHANGED <<secrets, location, button, coords, session_location,
                   weather, safety_rating, page, calls>>
    /\ UNCHANGED pureVars

\* lines 437-441: one turn of the loop: the stream delivers a chunk; a
\* chunk without choices raises IndexError at line 438
StreamChunk ==
    /\ pc = "stream"
    /\ Len(guide_read) < MaxFragments
    /\ \E chunk \in Chunks :
         /\ guide_read' = Append(guide_read, chunk)
         /\ IF chunk.choices = <<>>
            THEN /\ pc' = "crashed"
                 /\ UNCHANGED <<full_response, container>>
            ELSE /\ pc' = pc
                 /\ IF "content" \in DOMAIN chunk.choices[1].delta
                    THEN LET word == chunk.choices[1].delta.content
                         IN  /\ full_response' = full_response \o word
                             /\ container' =
                                  Markdown(full_response' \o <<Cursor>>)
                    ELSE UNCHANGED <<full_response, container>>
    /\ UNCHANGED <<secrets, location, button, coords, session_location,
                   weather, safety_rating, page, calls>>
    /\ UNCHANGED pureVars

\* lines 437, 443: the stream ends and the text is shown without the mark
StreamEnd ==
    /\ pc = "stream"
    /\ container' = Markdown(full_response)
    /\ pc' = "done"
    /\ UNCHANGED <<secrets, location, button, coords, session_location,
                   weather, safety_rating, page, calls, guide_read,
                   full_response>>
    /\ UNCHANGED pureVars

\* line 437: the stream raises (connection lost, API error) while it is
\* iterated; nothing catches the exception and the run ends with it
StreamError ==
    /\ pc = "stream"
    /\ pc' = "crashed"
    /\ UNCHANGED <<secrets, location, button, coords, session_location,
                   weather, safety_rating, page, calls, guide_read,
                   full_response, container>>
    /\ UNCHANGED pureVars

Next ==
    \/ Main
    \/ GetCoordinates
    \/ GetWeather
    \/ GeneratePackingList
    \/ DisplayBeachReport
    \/ GenerateLocationGuide
    \/ StreamChunk
    \/ StreamEnd
    \/ StreamError

Spec == Init /\ [][Next]_vars

----------------------------------------------------------------------------
(* Properties of a script run, checked under Spec                          *)

\* the places of the safety metrics on the page
SafetyMetrics ==
    {i \in 1..Len(page) :
        page[i].kind = "metric" /\ page[i].label = "Safety Rating"}

ExpectedLabel(s) ==
    CASE s >= Fx(8) -> "Very Safe"
      [] s < Fx(8) /\ s >= Fx(6) -> "Safe"
      [] s < Fx(6) /\ s >= Fx(4) -> "Caution Advised"
      [] OTHER -> "Not Recommended"

\* C3: the label shown with a score s produced by get_safety_rating has
\* inclusive lower bounds: s >= 8 Very Safe, else s >= 6 Safe, else s >= 4
\* Caution Advised, else Not Recommended, in the general report and in the
\* beach report alike; 4.0 is Caution Advised in both.
C3_Labels ==
    \A i \in SafetyMetrics :
        /\ page[i].value.num = safety_rating
        /\ page[i].delta = ExpectedLabel(page[i].value.num)
        /\ page[i].value.num = Fx(4) => page[i].delta = "Caution Advised"

\* a run that shows 4.0 in the general report and in the beach report
C3_Witness ==
    \E i, j \in SafetyMetrics :
        /\ i < j
        /\ page[i - 1] = Subheader("Is It Safe to Visit?")
        /\ page[j - 1] = Subheader("Safety to Visit?")
        /\ page[i].value.num = Fx(4) /\ page[i].delta = "Caution Advised"
        /\ page[j].value.num = Fx(4) /\ page[j].delta = "Caution Advised"

IsCouldNotFind(e) ==
    e.kind = "error" /\ e.text = "Could not find coordinates for: "

\* C8: no report without a resolved location.  An empty query renders
\* nothing but a warning and calls nothing (no geocoding, weather, tide,
\* scoring or AI function); a query whose geocoding fails renders only
\* errors, the blocking one last, calls get_coordinates alone and ends the
\* run; and whenever anything but get_coordinates has been called or a
\* report section is on the page, the location has resolved.
C8_NoReportWithoutLocation ==
    /\ (pc # "idle" /\ location = <<>>) =>
          /\ pc = "done"
          /\ calls = <<>>
          /\ \A i \in 1..Len(page) : page[i].kind = "warning"
          /\ button => Len(page) = 1
    /\ (\E i \in 1..Len(page) : IsCouldNotFind(page[i])) =>
          /\ pc = "done"
          /\ calls = <<"get_coordinates">>
          /\ \A i \in 1..Len(page) : page[i].kind = "error"
          /\ IsCouldNotFind(page[Len(page)])
    /\ (\/ Len(calls) > 1
        \/ \E i \in 1..Len(page) : page[i].kind \notin {"warning", "error"}) =>
          /\ coords # None
          /\ coords.lat # 0 /\ coords.lng # 0
          /\ location # <<>>

\* the geocoder is unreachable: its own error and the blocking error, and
\* nothing else
C8_Witness ==
    /\ pc = "done"
    /\ location = S_Delhi
    /\ calls = <<"get_coordinates">>
    /\ Len(page) = 2
    /\ page[1].kind = "error" /\ page[1].text = "Geocoding error: "
    /\ IsCouldNotFind(page[2])

\* C9: once the location has resolved, no failure of a downstream provider
\* (weather, tide, the AI text generator: when its call is created or while
\* its streamed response is consumed) ends the run with a hard error.
C9_NoHardError == coords # None => pc # "crashed"

RECURSIVE ConcatContent(_)
\* the contents of the chunks that have one, concatenated in order
ConcatContent(chunks) ==
    IF chunks = <<>> THEN <<>>
    ELSE LET c == chunks[Len(chunks)]
             before == ConcatContent(SubSeq(chunks, 1, Len(chunks) - 1))
         IN  IF c.choices # <<>> /\ "content" \in DOMAIN c.choices[1].delta
             THEN before \o c.choices[1].delta.content
             ELSE before

\* a chunk read so far carried a content (possibly the empty text)
HasContent(chunks) ==
    \E i \in 1..Len(chunks) :
        chunks[i].choices # <<>> /\ "content" \in DOMAIN chunks[i].choices[1].delta

IsPrefix(a, b) == Len(a) <= Len(b) /\ SubSeq(b, 1, Len(a)) = a

\* the text a container shows, without the mark
DisplayedText(c) ==
    IF c = None \/ ~c.shown THEN <<>>
    ELSE IF c.text # <<>> /\ c.text[Len(c.text)] = Cursor
    THEN SubSeq(c.text, 1, Len(c.text) - 1)
    ELSE c.text

\* a step reads at most one chunk, the next one, and only while the stream
\* is open; the text shown after the step extends the text shown before
C10_Step ==
    /\ guide_read' # guide_read =>
          /\ pc = "stream"
          /\ \E c \in Chunks : guide_read' = Append(guide_read, c)
    /\ pc \in {"done", "crashed"} => guide_read' = guide_read
    /\ IsPrefix(DisplayedText(container), DisplayedText(container'))

\* after every chunk read the container shows the concatenation followed
\* by the mark; after the end of the stream, the concatenation alone
C10_DisplayAsClaimed ==
    /\ (pc = "stream" /\ guide_read # <<>>) =>
          container = Markdown(ConcatContent(guide_read) \o <<Cursor>>)
    /\ (pc = "done" /\ container # None) =>
          container = Markdown(ConcatContent(guide_read))

\* C10 as claimed: fragments are read at most once and in order; after
\* every step the displayed text is the concatenation of the fragments read
\* so far followed by the cursor mark while the stream is open; each
\* displayed text extends the previous one; reading stops when the stream
\* ends or errors; after the end the display is the full concatenation
\* without the mark.
C10_CursorAfterEveryStep == []C10_DisplayAsClaimed /\ [][C10_Step]_vars

\* while the stream is open the container shows the concatenation followed
\* by the mark once a chunk with a content has been read, and nothing
\* before that
C10_Display ==
    /\ pc = "stream" =>
          container = IF HasContent(guide_read)
                      THEN Markdown(ConcatContent(guide_read) \o <<Cursor>>)
                      ELSE EmptyContainer
    /\ (pc = "done" /\ container # None) =>
          container = Markdown(ConcatContent(guide_read))

\* C10 amended: as claimed, except that the concatenation and the cursor
\* mark are displayed only once a fragment whose content is not None has
\* been read; until then the display is empty.
C10_CursorOnceContentRead == []C10_Display /\ [][C10_Step]_vars

\* a stream of a chunk without content, "a" and "bc", read to its end
C10_Witness ==
    /\ pc = "done"
    /\ guide_read = <<[choices |-> <<[delta |-> [role |-> "assistant"]]>>],
                      [choices |-> <<[delta |-> [content |-> <<"a">>]]>>],
                      [choices |-> <<[delta |-> [content |-> <<"b", "c">>]]>>]>>
    /\ container = Markdown(<<"a", "b", "c">>)

============================================================================
